---- MODULE Spec2Model ----
(***************************************************************************)
(* Reporting simulation and race-call engine of the election map            *)
(* (js/core/core.js, js/domain/domain.js, tick timer of js/app.js).         *)
(*                                                                         *)
(* Numbers.  Time is counted in seconds.  Votes are naturals.  A phase is   *)
(* the exact fraction [n, d] (n/d).  A share is votes/total*100 and is kept *)
(* as the pair (votes, total); a lead is compared by cross-multiplication.  *)
(* Rule thresholds are kept in thousandths (phase) and tenths of a point    *)
(* (lead).  Math.pow is computed in fixed point (see pow).                  *)
(* An array written  [i \in 1..n |-> e] \o <<>>  is the array itself: the   *)
(* concatenation only has TLC evaluate its entries once.                   *)
(***************************************************************************)
EXTENDS Integers, Sequences, FiniteSets, TLC

(* ------------------------------ bounds -------------------------------- *)
MaxVotes == 2
PowScale == 8192
\* the timer callback is followed up to this clock value (seconds)
MaxNow == 400

(* ------------------------- program constants --------------------------- *)
TICK_S == 2
FallbackWindowS == 300
AlphaQuarters == 5

(* ------------------------------ helpers -------------------------------- *)
Max(a, b) == IF a >= b THEN a ELSE b
Min(a, b) == IF a <= b THEN a ELSE b
Abs(a) == IF a >= 0 THEN a ELSE 0 - a

RECURSIVE SumSeq(_)
SumSeq(s) == IF s = <<>> THEN 0 ELSE Head(s) + SumSeq(Tail(s))

RECURSIVE IntPow(_, _)
IntPow(b, e) == IF e = 0 THEN 1 ELSE b * IntPow(b, e - 1)

\* Math.round(num/den) for num >= 0, den > 0: floor(x + 0.5)
RoundDiv(num, den) == (2 * num + den) \div (2 * den)

\* the parties of the session, in sorted order (detectParties sorts)
Parties == <<"A", "B">>

Null == [winner |-> "null", at |-> 0 - 1]
NoParty == [key |-> "null", votes |-> 0 - 1]

(* ----------------------- core.js: hash and bias ------------------------ *)
\* _rand01(districtKey + '|' + party): the FNV-1a hash of the key, here its
\* top 8 bits (units of 1/256)
rand01(districtKey, p) ==
    CASE districtKey = "Seoul" /\ p = "A" -> 160
      [] districtKey = "Seoul" /\ p = "B" -> 163
      [] districtKey = "Hamgyeong" /\ p = "A" -> 150
      [] districtKey = "Hamgyeong" /\ p = "B" -> 147
      [] OTHER -> 128

RECURSIVE gcd(_, _)
gcd(a, b) == IF b = 0 THEN a ELSE gcd(b, a % b)

RECURSIVE gcdOf(_)
gcdOf(s) == IF s = <<>> THEN 0 ELSE gcd(Abs(Head(s)), gcdOf(Tail(s)))

\* biasVectorFor(districtKey, parties, 0.2): raw - mean, divided by the
\* largest magnitude, times amp.  Returned as [num, den]: the bias of party
\* i is num[i] / (5 * den) (amp = 0.2 = 1/5), the fractions num[i]/den in
\* lowest common terms; den = 1 and num = 0 when every raw value equals the
\* mean (the 1e-9 guard).
biasVectorFor(districtKey, parties) ==
    LET n == Len(parties)
        raw == [i \in 1..n |-> rand01(districtKey, parties[i])] \o <<>>
        vec == [i \in 1..n |-> n * raw[i] - SumSeq(raw)] \o <<>>
        mags == {Abs(vec[i]) : i \in 1..n} \cup {0}
        maxAbs == CHOOSE m \in mags : \A k \in mags : k <= m
        g == gcdOf(vec)
    IN IF maxAbs = 0 THEN [num |-> vec, den |-> 1]
       ELSE [num |-> [i \in 1..n |-> vec[i] \div g] \o <<>>, den |-> maxAbs \div g]

\* the integer square root, found bit by bit from `bit` down
RECURSIVE isqrtFrom(_, _, _)
isqrtFrom(x, r, bit) ==
    IF bit = 0 THEN r
    ELSE IF (r + bit) * (r + bit) <= x THEN isqrtFrom(x, r + bit, bit \div 2)
    ELSE isqrtFrom(x, r, bit \div 2)

isqrt(x) == isqrtFrom(x, 0, 16384)

\* Math.pow(x, alpha) for x = xn/xd in [0,1] and alpha = aq/4 >= 0, in units
\* of 1/PowScale, rounded down: x is first cut to PowScale steps; pow(x, 0)
\* is 1 for every x (also x = 0), pow(0, alpha) = 0 and pow(1, alpha) = 1.
\* The exponents used: 0, 1 and 5/4, the last as x times the square root of
\* the square root of x.
PowTable ==
    [aq \in {0, 4, 5} |->
        [xq \in 0..PowScale |->
            IF aq = 0 THEN PowScale
            ELSE IF aq = 4 \/ xq = 0 \/ xq = PowScale THEN xq
            ELSE (xq * isqrt(isqrt(xq * PowScale) * PowScale)) \div PowScale]]

pow(xn, xd, aq) == PowTable[aq][(PowScale * xn) \div xd]

\* earlyWeight with the bias never fading: influence 1 at every phase
earlyWeightUnfaded(bnum, bden, phase, aq) ==
    Max(bden * PowScale, 5 * bden * PowScale + bnum * PowScale)

\* earlyWeight(bias, phase, alpha) with bias = bnum/(5*bden): the weight
\* max(0.2, 1 + bias * influence) in units of 1/(5 * bden * PowScale)
earlyWeight(bnum, bden, phase, aq) ==
    LET cn == Max(0, Min(phase.d, phase.n))
        influence == pow(phase.d - cn, phase.d, aq)
        w == 5 * bden * PowScale + bnum * influence
    IN Max(bden * PowScale, w)

(* --------------------------- core.js: apportion ------------------------ *)
\* x + y modulo c for 0 <= x, y <= c, with the carry, no sum leaving 32 bits
addMod(x, y, c) ==
    IF x >= c - y THEN [carry |-> 1, r |-> x - (c - y)] ELSE [carry |-> 0, r |-> x + y]

\* a * b = q * c + r for 0 <= b <= c, 0 < c: a product that would leave 32
\* bits is never formed
RECURSIVE mulDiv(_, _, _)
mulDiv(a, b, c) ==
    IF b = 0 \/ a <= 2147483647 \div b THEN [q |-> (a * b) \div c, r |-> (a * b) % c]
    ELSE LET h == mulDiv(a \div 2, b, c)
             d == addMod(h.r, h.r, c)
             e == IF a % 2 = 1 THEN addMod(d.r, b, c) ELSE [carry |-> 0, r |-> d.r]
         IN [q |-> 2 * h.q + d.carry + e.carry, r |-> e.r]

\* apportion with the leftover units never handed out
apportionFloors(total, weightsArg) ==
    LET weights == CHOOSE w \in {weightsArg \o <<>>} : TRUE
        n == Len(weights)
        sum == SumSeq(weights)
    IN IF ~(sum > 0) \/ ~(total > 0) THEN [i \in 1..n |-> 0]
       ELSE [i \in 1..n |-> mulDiv(total, weights[i], sum).q]

\* apportion guarding only the total: with all weights zero every quotient
\* is 0/0, NaN (written 0 - 1)
apportionNoSumGuard(total, weightsArg) ==
    LET weights == CHOOSE w \in {weightsArg \o <<>>} : TRUE
        n == Len(weights)
        sum == SumSeq(weights)
    IN IF ~(total > 0) THEN [i \in 1..n |-> 0]
       ELSE IF sum = 0 THEN [i \in 1..n |-> 0 - 1]
       ELSE apportionFloors(total, weights)

\* The quotients total * w / sum are IEEE doubles: 53 significant bits,
\* round to nearest, ties to even.  For a quotient fl + r/b (fl its floor,
\* 0 < r < b) the double keeps gridBits(fl, r, b) bits after the binary point.
RECURSIVE bitLength(_)
bitLength(x) == IF x = 0 THEN 0 ELSE 1 + bitLength(x \div 2)

\* the position of the first 1 bit of r/b after the binary point
RECURSIVE leadingBit(_, _)
leadingBit(r, b) == IF r >= b - r THEN 1 ELSE 1 + leadingBit(2 * r, b)

gridBits(fl, r, b) == IF fl >= 1 THEN 53 - bitLength(fl) ELSE 52 + leadingBit(r, b)

RECURSIVE pow2mod(_, _)
pow2mod(k, b) ==
    IF k = 0 THEN 1 % b
    ELSE IF k % 2 = 0 THEN LET h == pow2mod(k \div 2, b) IN mulDiv(h, h, b).r
    ELSE LET h == pow2mod(k - 1, b) IN addMod(h, h, b).r

\* what is left of r/b below its k-th bit, in units of 1/(b * 2^k)
remAt(r, b, k) == mulDiv(r, pow2mod(k, b), b).r

\* whether r/b rounds up when cut to k bits
roundsUp(r, b, k) ==
    LET m == remAt(r, b, k)
        prev == remAt(r, b, k - 1)
    IN m > b - m \/ (m = b - m /\ prev >= b - prev)

\* x - Math.floor(x) of two quotients with the same exact remainder r/b (in
\* lowest terms) and the floors fi and fj: whether the first fraction is the
\* larger double
fracAbove(fi, fj, r, b) ==
    IF r = 0 THEN FALSE
    ELSE LET ki == gridBits(fi, r, b)
             kj == gridBits(fj, r, b)
         IN IF ki = kj THEN FALSE
            ELSE IF ki < kj
            THEN LET d == kj - ki
                     bits == mulDiv(IntPow(2, d), remAt(r, b, ki), b).q
                 IN roundsUp(r, b, ki) /\ ~(bits = IntPow(2, d) - 1 /\ roundsUp(r, b, kj))
            ELSE LET d == ki - kj
                     bits == mulDiv(IntPow(2, d), remAt(r, b, kj), b).q
                 IN ~roundsUp(r, b, kj) /\ ~(bits = 0 /\ ~roundsUp(r, b, ki))

\* apportion(total, weights): the leftover units go down the fractions
\* sorted in descending order, the sort being stable.  Fractions whose exact
\* remainders differ keep their order as doubles (total * sum is far below
\* 2^53); equal remainders compare as fracAbove says.
apportion(total, weightsArg) ==
    LET weights == CHOOSE w \in {weightsArg \o <<>>} : TRUE
        n == Len(weights)
        sum == SumSeq(weights)
    IN IF ~(sum > 0) \/ ~(total > 0) THEN [i \in 1..n |-> 0]
       ELSE LET quot == CHOOSE q \in {[i \in 1..n |-> mulDiv(total, weights[i], sum)] \o <<>>} : TRUE
                floors == CHOOSE f \in {[i \in 1..n |-> quot[i].q]} : TRUE
                frac == CHOOSE f \in {[i \in 1..n |-> quot[i].r]} : TRUE
                left == CHOOSE l \in {total - SumSeq(floors)} : TRUE
                before(j, i) ==
                    \/ frac[j] > frac[i]
                    \/ /\ frac[j] = frac[i]
                       /\ IF frac[i] = 0 \/ floors[i] = floors[j] THEN j < i
                          ELSE LET g == gcd(frac[i], sum)
                                   r == frac[i] \div g
                                   b == sum \div g
                               IN \/ fracAbove(floors[j], floors[i], r, b)
                                  \/ (j < i /\ ~fracAbove(floors[i], floors[j], r, b))
                \* position of entry i after sort((a,b) => b.frac - a.frac)
                pos == [i \in 1..n |-> Cardinality({j \in 1..n : j # i /\ before(j, i)})]
            IN [i \in 1..n |-> IF pos[i] < left THEN floors[i] + 1 ELSE floors[i]]

(* ----------------------- domain.js: count window ---------------------- *)
\* Date.parse of a missing or malformed date
NaN == 0 - 1
IsFinite(x) == x # NaN

\* Number(x) || 0, and r[key] || 0: a missing or non-numeric field counts 0
NumberOr0(x) == IF IsFinite(x) THEN x ELSE 0
NoWindow == [startMs |-> NaN, endMs |-> NaN]

\* ensureCountWindow taking any pair of finite dates, end before start included
ensureCountWindowUnordered(election, saved, now) ==
    LET s == election.count_start
        e == election.count_end
    IN IF IsFinite(s) /\ IsFinite(e)
       THEN [win |-> [startMs |-> s, endMs |-> e], saved |-> saved]
       ELSE IF saved # NoWindow /\ IsFinite(saved.startMs) /\ IsFinite(saved.endMs)
               /\ saved.endMs > now
            THEN [win |-> saved, saved |-> saved]
            ELSE LET fresh == [startMs |-> now, endMs |-> now + FallbackWindowS]
                 IN [win |-> fresh, saved |-> fresh]

\* ensureCountWindow never reading the persisted window back
ensureCountWindowForgetful(election, saved, now) ==
    LET s == election.count_start
        e == election.count_end
    IN IF IsFinite(s) /\ IsFinite(e) /\ e > s
       THEN [win |-> [startMs |-> s, endMs |-> e], saved |-> saved]
       ELSE LET fresh == [startMs |-> now, endMs |-> now + FallbackWindowS]
            IN [win |-> fresh, saved |-> fresh]

\* ensureCountWindow(election) at time now with `saved` in localStorage:
\* the window returned and the value localStorage holds afterwards
ensureCountWindow(election, saved, now) ==
    LET s == election.count_start
        e == election.count_end
    IN IF IsFinite(s) /\ IsFinite(e) /\ e > s
       THEN [win |-> [startMs |-> s, endMs |-> e], saved |-> saved]
       ELSE IF saved # NoWindow /\ IsFinite(saved.startMs) /\ IsFinite(saved.endMs)
               /\ saved.endMs > now
            THEN [win |-> saved, saved |-> saved]
            ELSE LET fresh == [startMs |-> now, endMs |-> now + FallbackWindowS]
                 IN [win |-> fresh, saved |-> fresh]

\* computeProgress(startMs, endMs) read at time now, as the fraction n/d of 100
computeProgress(startMs, endMs, now) ==
    IF ~IsFinite(startMs) \/ ~IsFinite(endMs) \/ endMs <= startMs THEN [n |-> 100, d |-> 1]
    ELSE IF now <= startMs THEN [n |-> 0, d |-> 1]
    ELSE IF now >= endMs THEN [n |-> 100, d |-> 1]
    ELSE [n |-> (now - startMs) * 100, d |-> endMs - startMs]

(* --------------------- domain.js: reporting schedule ------------------- *)
\* the geographic bias of a district id, in thousandths
geoBias(did) ==
    CASE did = "Seoul" -> 250
      [] did = "Jeolla" -> 350
      [] did = "Hamgyeong" -> 650
      [] did = "Pyeongan" -> 550
      [] OTHER -> 500

\* one entry of assignReportingSchedule: u1, u2 are the two Math.random()
\* draws in hundredths; fractions are kept in ten-thousandths
scheduleRow(r, startMs, endMs, u1, u2) ==
    LET span == Max(1, endMs - startMs)
        startFrac == Min(9000, Max(500, 10 * (geoBias(r.district_id) + 3 * u1 - 150)))
        endFrac == Min(10000, Max(startFrac + 500, startFrac + 2500 + 25 * u2))
    IN [district_id |-> r.district_id, votes |-> r.votes,
        report_start |-> startMs + RoundDiv(startFrac * span, 10000),
        report_end |-> startMs + RoundDiv(endFrac * span, 10000)]

assignReportingSchedule(rows, startMs, endMs, draws) ==
    [i \in 1..Len(rows) |-> scheduleRow(rows[i], startMs, endMs, draws[i][1], draws[i][2])]

(* ------------------------ domain.js: live rows ------------------------- *)
\* phaseOf without the clamp at report_end
phaseOfUnclamped(rs, re, now) ==
    IF now > rs THEN [n |-> now - rs, d |-> Max(1, re - rs)]
    ELSE [n |-> 0, d |-> 1]

\* phaseOf without the clamp at report_start
phaseOfNoStart(rs, re, now) ==
    IF now >= re THEN [n |-> 1, d |-> 1]
    ELSE [n |-> now - rs, d |-> Max(1, re - rs)]

phaseOf(rs, re, now) ==
    IF now >= re THEN [n |-> 1, d |-> 1]
    ELSE IF now > rs THEN [n |-> now - rs, d |-> Max(1, re - rs)]
    ELSE [n |-> 0, d |-> 1]

\* scaleRow truncating the reported total instead of rounding it
scaleRowFloor(row, parties, now) ==
    LET n == Len(parties)
        phase == CHOOSE ph \in {phaseOf(row.report_start, row.report_end, now)} : TRUE
        finals == [i \in 1..n |-> Max(0, NumberOr0(row.votes[i]))] \o <<>>
        totalFinal == SumSeq(finals)
        reported == Max(0, (totalFinal * phase.n) \div phase.d)
        biases == CHOOSE b \in {biasVectorFor(row.district_id, parties)} : TRUE
        weights == [i \in 1..n |->
                      finals[i] * earlyWeight(biases.num[i], biases.den, phase, AlphaQuarters)]
        alloc == CHOOSE a \in {apportion(reported, weights) \o <<>>} : TRUE
    IN [live |-> alloc, totalVotes |-> SumSeq(alloc), phase |-> phase, call |-> Null] @@ row

\* scaleRow taking the vote columns as they come: no Math.max(0, ...), and a
\* column that is not a number (the value NaN stands for) read as a number
scaleRowRawVotes(row, parties, now) ==
    LET n == Len(parties)
        phase == CHOOSE ph \in {phaseOf(row.report_start, row.report_end, now)} : TRUE
        finals == [i \in 1..n |-> row.votes[i]]
        totalFinal == SumSeq(finals)
        reported == Max(0, RoundDiv(totalFinal * phase.n, phase.d))
        biases == CHOOSE b \in {biasVectorFor(row.district_id, parties)} : TRUE
        weights == [i \in 1..n |->
                      finals[i] * earlyWeight(biases.num[i], biases.den, phase, AlphaQuarters)]
        alloc == CHOOSE a \in {apportion(reported, weights) \o <<>>} : TRUE
    IN [live |-> alloc, totalVotes |-> SumSeq(alloc), phase |-> phase, call |-> Null] @@ row

\* scaleRow: {...row} with the live votes, _totalVotes and _phase added
scaleRow(row, parties, now) ==
    LET n == Len(parties)
        phase == CHOOSE ph \in {phaseOf(row.report_start, row.report_end, now)} : TRUE
        finals == [i \in 1..n |-> Max(0, NumberOr0(row.votes[i]))] \o <<>>
        totalFinal == SumSeq(finals)
        reported == Max(0, RoundDiv(totalFinal * phase.n, phase.d))
        biases == CHOOSE b \in {biasVectorFor(row.district_id, parties)} : TRUE
        weights == [i \in 1..n |->
                      finals[i] * earlyWeight(biases.num[i], biases.den, phase, AlphaQuarters)]
        alloc == CHOOSE a \in {apportion(reported, weights) \o <<>>} : TRUE
    IN [live |-> alloc, totalVotes |-> SumSeq(alloc), phase |-> phase, call |-> Null] @@ row

\* _party[P].share of a live row: the percent n/d, or NoShare (null) when
\* the row has no live votes
NoShare == [n |-> 0, d |-> 0]
shareUnguarded(row, i) == [n |-> row.live[i] * 100, d |-> row.totalVotes]

shareOf(row, i) ==
    IF row.totalVotes # 0 THEN [n |-> row.live[i] * 100, d |-> row.totalVotes] ELSE NoShare

scaleRowsBySchedule(rowsWithSched, parties, now) ==
    [i \in 1..Len(rowsWithSched) |-> scaleRow(rowsWithSched[i], parties, now)] \o <<>>

(* ------------------------- core.js: race calls ------------------------- *)
\* topTwo: the linear scan over the parties; a share is finite exactly when
\* the row has votes, and shares of one row compare as their votes do
\* the scan letting a later party with the same share take the lead
RECURSIVE topTwoScanLastWins(_, _, _, _, _)
topTwoScanLastWins(row, parties, i, leader, runnerUp) ==
    IF i > Len(parties) THEN [leader |-> leader, runnerUp |-> runnerUp]
    ELSE IF row.totalVotes = 0 \/ row.live[i] = NaN
    THEN topTwoScanLastWins(row, parties, i + 1, leader, runnerUp)
    ELSE LET s == row.live[i]
         IN IF s >= leader.votes
            THEN topTwoScanLastWins(row, parties, i + 1, [key |-> parties[i], votes |-> s], leader)
            ELSE IF s > runnerUp.votes
            THEN topTwoScanLastWins(row, parties, i + 1, leader, [key |-> parties[i], votes |-> s])
            ELSE topTwoScanLastWins(row, parties, i + 1, leader, runnerUp)

\* a party without live votes of its own (NaN) has a null share as well
RECURSIVE topTwoScan(_, _, _, _, _)
topTwoScan(row, parties, i, leader, runnerUp) ==
    IF i > Len(parties) THEN [leader |-> leader, runnerUp |-> runnerUp]
    ELSE IF row.totalVotes = 0 \/ row.live[i] = NaN
    THEN topTwoScan(row, parties, i + 1, leader, runnerUp)
    ELSE LET s == row.live[i]
         IN IF s > leader.votes
            THEN topTwoScan(row, parties, i + 1, [key |-> parties[i], votes |-> s], leader)
            ELSE IF s > runnerUp.votes
            THEN topTwoScan(row, parties, i + 1, leader, [key |-> parties[i], votes |-> s])
            ELSE topTwoScan(row, parties, i + 1, leader, runnerUp)

topTwo(row, parties) == topTwoScan(row, parties, 1, NoParty, NoParty)

\* DEFAULT_CALL_RULES: phase in thousandths, lead in tenths of a point
DEFAULT_CALL_RULES ==
    << [phase |-> 990, lead |-> 5], [phase |-> 920, lead |-> 120],
       [phase |-> 850, lead |-> 180], [phase |-> 750, lead |-> 250] >>

\* the lead in points, leader share minus runner-up share, as the fraction n/d
leadOf(row, t2) ==
    IF t2.leader.key # "null" /\ t2.runnerUp.key # "null"
    THEN [n |-> (t2.leader.votes - t2.runnerUp.votes) * 100, d |-> row.totalVotes]
    ELSE [n |-> 0, d |-> 1]

\* the rule test on the lead alone
ruleMetLeadOnly(r, phase, lead) ==
    lead.n * 10 >= r.lead * lead.d

ruleMet(r, phase, lead) ==
    /\ phase.n * 1000 >= r.phase * phase.d
    /\ lead.n * 10 >= r.lead * lead.d

\* raceCallStatus as map_core.js has it: no branch for full reporting
raceCallStatusRulesOnly(row, parties, rules) ==
    LET phase == row.phase
        t2 == topTwo(row, parties)
        lead == leadOf(row, t2)
        rr == IF Len(rules) > 0 THEN rules ELSE DEFAULT_CALL_RULES
        called == \E k \in 1..Len(rr) : ruleMet(rr[k], phase, lead)
    IN [called |-> called, lead |-> lead, phase |-> phase,
        label |-> IF called THEN "called"
                  ELSE IF lead.n >= 4 * lead.d THEN "lean" ELSE "tossup"]

\* raceCallStatus calling at full reporting on any lead, a zero lead included
raceCallStatusAnyLead(row, parties, rules) ==
    LET phase == row.phase
        t2 == topTwo(row, parties)
        lead == leadOf(row, t2)
    IN IF phase.n * 1000 >= 999 * phase.d
       THEN LET called == lead.n >= 0
            IN [called |-> called, lead |-> lead, phase |-> phase,
                label |-> IF called THEN "called" ELSE "tossup"]
       ELSE raceCallStatusRulesOnly(row, parties, rules)

raceCallStatus(row, parties, rules) ==
    LET phase == row.phase
        t2 == topTwo(row, parties)
        lead == leadOf(row, t2)
    IN IF phase.n * 1000 >= 999 * phase.d
       THEN LET called == lead.n > 0
            IN [called |-> called, lead |-> lead, phase |-> phase,
                label |-> IF called THEN "called" ELSE "tossup"]
       ELSE LET rr == IF Len(rules) > 0 THEN rules ELSE DEFAULT_CALL_RULES
                called == \E k \in 1..Len(rr) : ruleMet(rr[k], phase, lead)
            IN [called |-> called, lead |-> lead, phase |-> phase,
                label |-> IF called THEN "called"
                          ELSE IF lead.n >= 4 * lead.d THEN "lean" ELSE "tossup"]

(* ----------------------- domain.js: updateCalls ------------------------ *)
\* the decision naming the party with the most live votes, whether or not
\* the row has shares
newCallByVotes(r, parties, rules, now) ==
    LET st == raceCallStatus(r, parties, rules)
        k == CHOOSE i \in 1..Len(parties) :
                /\ \A j \in 1..Len(parties) : r.live[j] <= r.live[i]
                /\ \A j \in 1..(i - 1) : r.live[j] < r.live[i]
    IN IF st.called /\ Len(parties) > 0
       THEN [winner |-> parties[k], at |-> now]
       ELSE Null

\* the decision storing a call whenever the status says called, leader or not
newCallUnguarded(r, parties, rules, now) ==
    LET st == raceCallStatus(r, parties, rules)
        t2 == topTwo(r, parties)
    IN IF st.called THEN [winner |-> t2.leader.key, at |-> now] ELSE Null

\* the decision for a district that has no entry: the call to store, or Null
newCall(r, parties, rules, now) ==
    LET st == raceCallStatus(r, parties, rules)
        t2 == topTwo(r, parties)
    IN IF st.called /\ t2.leader.key # "null"
       THEN [winner |-> t2.leader.key, at |-> now]
       ELSE Null

\* the loop deciding every district afresh and storing over an entry
RECURSIVE updateCallsOverwrite(_, _, _, _, _, _)
updateCallsOverwrite(rows, parties, reg, rules, now, i) ==
    IF i > Len(rows) THEN [rows |-> rows, calls |-> reg]
    ELSE LET id == rows[i].district_id
             c == CHOOSE x \in {newCall(rows[i], parties, rules, now)} : TRUE
         IN IF c # Null
            THEN updateCallsOverwrite([rows EXCEPT ![i].call = c], parties,
                                      (id :> c) @@ reg, rules, now, i + 1)
            ELSE updateCallsOverwrite(
                    [rows EXCEPT ![i].call = IF id \in DOMAIN reg THEN reg[id] ELSE Null],
                    parties, reg, rules, now, i + 1)

\* the loop keeping the registry but attaching to the row what it decides now
RECURSIVE updateCallsRecheck(_, _, _, _, _, _)
updateCallsRecheck(rows, parties, reg, rules, now, i) ==
    IF i > Len(rows) THEN [rows |-> rows, calls |-> reg]
    ELSE LET id == rows[i].district_id
             c == CHOOSE x \in {newCall(rows[i], parties, rules, now)} : TRUE
         IN IF c # Null
            THEN updateCallsRecheck([rows EXCEPT ![i].call = c], parties,
                                    IF id \in DOMAIN reg THEN reg ELSE reg @@ (id :> c),
                                    rules, now, i + 1)
            ELSE updateCallsRecheck([rows EXCEPT ![i].call = Null], parties,
                                    reg, rules, now, i + 1)

\* the loop keeping one entry per row, under the id and the row's position
RECURSIVE updateCallsPerRow(_, _, _, _, _, _)
updateCallsPerRow(rows, parties, reg, rules, now, i) ==
    IF i > Len(rows) THEN [rows |-> rows, calls |-> reg]
    ELSE LET id == rows[i].district_id \o "#" \o ToString(i)
         IN IF id \in DOMAIN reg
            THEN updateCallsPerRow([rows EXCEPT ![i].call = reg[id]], parties, reg, rules, now, i + 1)
            ELSE LET c == CHOOSE x \in {newCall(rows[i], parties, rules, now)} : TRUE
                 IN IF c # Null
                    THEN updateCallsPerRow([rows EXCEPT ![i].call = c], parties,
                                           reg @@ (id :> c), rules, now, i + 1)
                    ELSE updateCallsPerRow([rows EXCEPT ![i].call = Null], parties,
                                           reg, rules, now, i + 1)

\* the loop over rowsLive from row i on: registry and rows afterwards
RECURSIVE updateCallsFrom(_, _, _, _, _, _)
updateCallsFrom(rows, parties, reg, rules, now, i) ==
    IF i > Len(rows) THEN [rows |-> rows, calls |-> reg]
    ELSE LET id == rows[i].district_id
         IN IF id \in DOMAIN reg
            THEN updateCallsFrom([rows EXCEPT ![i].call = reg[id]], parties, reg, rules, now, i + 1)
            ELSE LET c == CHOOSE x \in {newCall(rows[i], parties, rules, now)} : TRUE
                 IN IF c # Null
                    THEN updateCallsFrom([rows EXCEPT ![i].call = c], parties,
                                         reg @@ (id :> c), rules, now, i + 1)
                    ELSE updateCallsFrom([rows EXCEPT ![i].call = Null], parties,
                                         reg, rules, now, i + 1)

updateCalls(rowsLive, parties, reg, rules, now) ==
    updateCallsFrom(rowsLive, parties, reg, rules, now, 1)

\* app.js has its own updateCalls, which calls raceCallStatus(r, parties)
\* with no rule list whatever STATE.callRules holds
updateCallsApp(rowsLive, parties, reg, rules, now) ==
    updateCallsFrom(rowsLive, parties, reg, <<>>, now, 1)

(* --------------------- domain.js: computeNational ---------------------- *)
\* a live row without a numeric _phase
NoPhase == [n |-> NaN, d |-> 1]

\* the phase computeNational weighs a row by
nationalPhase(r, rowTot) ==
    IF r.phase # NoPhase THEN r.phase
    ELSE IF rowTot > 0 THEN [n |-> 1, d |-> 1] ELSE [n |-> 0, d |-> 1]

\* the common denominator of the rows' phases
RECURSIVE phaseDen(_)
phaseDen(rows) == IF rows = <<>> THEN 1 ELSE Head(rows).phase.d * phaseDen(Tail(rows))

\* parties by descending total, Array.prototype.sort being stable
orderedBy(parties, totals) ==
    LET n == Len(parties)
        pos == [i \in 1..n |->
                  Cardinality({j \in 1..n : totals[j] > totals[i]
                                              \/ (totals[j] = totals[i] /\ j < i)})]
    IN [k \in 1..n |-> parties[CHOOSE i \in 1..n : pos[i] = k - 1]]

\* natPct dividing by ballots even when there are none: 0/0 is NaN
natPctUnguarded(totals, ballots) ==
    [i \in 1..Len(totals) |-> IF ballots # 0 THEN [n |-> totals[i] * 100, d |-> ballots]
                              ELSE [n |-> NaN, d |-> 1]]

\* natPct: every party's percent of the ballots, 0 when there are none
natPctOf(totals, ballots) ==
    [i \in 1..Len(totals) |-> IF ballots # 0 THEN [n |-> totals[i] * 100, d |-> ballots]
                              ELSE [n |-> 0, d |-> 1]]

\* computeNational with every row's eligible voters counted in full
computeNationalUnweighted(rows, parties) ==
    LET n == Len(parties)
        rowTot == [k \in 1..Len(rows) |->
                     SumSeq([i \in 1..n |-> NumberOr0(rows[k].live[i])])]
        ballots == SumSeq(rowTot)
        eligibleWeighted == SumSeq([k \in 1..Len(rows) |->
                                       NumberOr0(rows[k].eligible_voters_est)])
        turnoutWeighted == SumSeq([k \in 1..Len(rows) |->
                                      NumberOr0(rows[k].turnout_est)
                                         * NumberOr0(rows[k].eligible_voters_est)])
        totals == [i \in 1..n |-> SumSeq([k \in 1..Len(rows) |-> NumberOr0(rows[k].live[i])])]
    IN [totals |-> totals,
        natPct |-> natPctOf(totals, ballots),
        ballots |-> ballots,
        eligible |-> [n |-> eligibleWeighted, d |-> 1],
        natTurnout |-> IF eligibleWeighted # 0
                       THEN [n |-> turnoutWeighted, d |-> eligibleWeighted]
                       ELSE [n |-> 0, d |-> 1],
        ordered |-> orderedBy(parties, totals)]

\* computeNational(rows, parties): the weighted sums are kept over the
\* common denominator den of the rows' phases
computeNational(rows, parties) ==
    LET n == Len(parties)
        rowTot == [k \in 1..Len(rows) |->
                     SumSeq([i \in 1..n |-> NumberOr0(rows[k].live[i])])]
        ballots == SumSeq(rowTot)
        ph == [k \in 1..Len(rows) |-> nationalPhase(rows[k], rowTot[k])]
        den == phaseDen([k \in 1..Len(rows) |-> [phase |-> ph[k]]])
        wt == [k \in 1..Len(rows) |->
                 NumberOr0(rows[k].eligible_voters_est) * ph[k].n * (den \div ph[k].d)]
        eligibleWeighted == SumSeq(wt)
        turnoutWeighted == SumSeq([k \in 1..Len(rows) |->
                                      NumberOr0(rows[k].turnout_est) * wt[k]])
        totals == [i \in 1..n |-> SumSeq([k \in 1..Len(rows) |-> NumberOr0(rows[k].live[i])])]
    IN [totals |-> totals,
        natPct |-> natPctOf(totals, ballots),
        ballots |-> ballots,
        eligible |-> [n |-> eligibleWeighted, d |-> den],
        natTurnout |-> IF eligibleWeighted # 0
                       THEN [n |-> turnoutWeighted, d |-> eligibleWeighted]
                       ELSE [n |-> 0, d |-> 1],
        ordered |-> orderedBy(parties, totals)]

(* ------------------------------ the session ---------------------------- *)
VARIABLES
    clock,          \* Date.now() when the last pass began
    pc,             \* "load", "paint", "ticking", "stopped": where init() and its timer are
    election,       \* the election metadata: count_start, count_end as parsed
    saved,          \* localStorage 'countWindow'
    rowsFinal,      \* STATE.rowsFinal
    callRules,      \* STATE.callRules: <<>> when none is supplied
    win,            \* STATE.startMs, STATE.endMs
    scheduleRows,   \* STATE.scheduleRows
    totalDistricts, \* STATE.totalDistricts
    calls,          \* STATE.calls: district_id -> [winner, at]
    rowsLive,       \* the live rows of the last pass, with _call
    pass,           \* the last pass: its now, its progress, whether it was a timer tick
    deskCalled,     \* the 'called' count renderDesk wrote
    fnArgs,         \* the arguments of a helper called on its own
    fnResult        \* and what it returned

vars == <<clock, pc, election, saved, rowsFinal, callRules, win, scheduleRows,
          totalDistricts, calls, rowsLive, pass, deskCalled, fnArgs, fnResult>>

DistrictIds == <<"Seoul", "Hamgyeong">>

\* the final rows: every party's votes within 0..MaxVotes
VoteVectors == [1..Len(Parties) -> 0..MaxVotes]
FinalRows ==
    {[i \in 1..Len(DistrictIds) |-> [district_id |-> DistrictIds[i], votes |-> v[i]]] :
        v \in [1..Len(DistrictIds) -> VoteVectors]}

Elections == { [count_start |-> 4, count_end |-> 16] }

\* when the page loads
LoadClocks == {0, 9}

\* the two Math.random() draws of one district, in hundredths
RandomDraws == { <<0, 0>>, <<50, 99>>, <<99, 50>> }

\* how late the timer fires, and how far Date.now() moves between the reads
\* of one pass: <<read of computeProgress, read of updateCalls>> after `now`
Jitters == {0, 1}
ClockSkews == {<<0, 0>>, <<1, 1>>}

NoPass == [now |-> 0 - 1, progress |-> [n |-> 0, d |-> 1], tick |-> FALSE, cancelled |-> FALSE]

Init ==
    /\ clock \in LoadClocks
    /\ pc = "load"
    /\ election \in Elections
    /\ saved = NoWindow
    /\ rowsFinal \in FinalRows
    /\ callRules = <<>>
    /\ win = NoWindow
    /\ scheduleRows = <<>>
    /\ totalDistricts = 0
    /\ calls = <<>>
    /\ rowsLive = <<>>
    /\ pass = NoPass
    /\ deskCalled = 0
    /\ fnArgs = <<>>
    /\ fnResult = <<>>

\* init(): the data has loaded; count window, STATE, schedule, totalDistricts
Load ==
    /\ pc = "load"
    /\ LET w == ensureCountWindow(election, saved, clock)
       IN /\ win' = w.win
          /\ saved' = w.saved
          /\ \E draws \in [1..Len(rowsFinal) -> RandomDraws] :
                scheduleRows' = assignReportingSchedule(rowsFinal, w.win.startMs, w.win.endMs, draws)
    /\ totalDistricts' = Cardinality({rowsFinal[i].district_id : i \in 1..Len(rowsFinal)})
    /\ pc' = "paint"
    /\ UNCHANGED <<clock, election, rowsFinal, callRules, calls, rowsLive, pass, deskCalled,
                   fnArgs, fnResult>>

\* a pass drawing the reporting schedule afresh (early on even seconds,
\* late on odd ones) instead of reading STATE.scheduleRows
PassRowsReschedule(now, tCall) ==
    LET draws == [i \in 1..Len(rowsFinal) |-> IF now % 2 = 0 THEN <<0, 0>> ELSE <<99, 50>>]
        sched == assignReportingSchedule(rowsFinal, win.startMs, win.endMs, draws)
        live == CHOOSE l \in {scaleRowsBySchedule(sched, Parties, now)} : TRUE
    IN updateCalls(live, Parties, calls, callRules, tCall)

\* one pass over the districts: scaling at `now`, then updateCalls reading
\* the clock at tCall
PassRows(now, tCall) ==
    LET live == CHOOSE l \in {scaleRowsBySchedule(scheduleRows, Parties, now)} : TRUE
    IN updateCalls(live, Parties, calls, callRules, tCall)

\* init(): first paint (computeProgress reads the clock first), then setInterval
FirstPaint ==
    /\ pc = "paint"
    /\ \E sk \in ClockSkews :
          LET now == clock + sk[1]
              tCall == clock + sk[2]
          IN \E res \in {PassRows(now, tCall)} :
             /\ rowsLive' = res.rows
             /\ calls' = res.calls
             /\ deskCalled' = Cardinality(DOMAIN res.calls)
             /\ pass' = [now |-> now, progress |-> computeProgress(win.startMs, win.endMs, clock),
                         tick |-> FALSE, cancelled |-> FALSE]
    /\ pc' = "ticking"
    /\ UNCHANGED <<clock, election, saved, rowsFinal, callRules, win, scheduleRows,
                   totalDistricts, fnArgs, fnResult>>

\* the timer cleared as soon as the progress bar is full, without the test
\* of the districts' report_end
cancelsOnProgress(progress, rows, now) ==
    progress.n >= 100 * progress.d

\* the callback clearing the interval once any district is done
cancelsAny(progress, rows, now) ==
    /\ progress.n >= 100 * progress.d
    /\ \E i \in 1..Len(rows) : now >= rows[i].report_end

\* whether the timer callback clears the interval
cancels(progress, rows, now) ==
    /\ progress.n >= 100 * progress.d
    /\ \A i \in 1..Len(rows) : now >= rows[i].report_end

\* the callback with scaleRowsBySchedule writing the live votes into the
\* schedule rows themselves instead of into copies ({...row})
TickInPlace ==
    /\ pc = "ticking"
    /\ clock <= MaxNow
    /\ \E j \in Jitters, sk \in ClockSkews :
          LET now == clock + TICK_S + j
              progress == computeProgress(win.startMs, win.endMs, now + sk[1])
          IN \E res \in {PassRows(now, now + sk[2])} :
             LET stop == cancels(progress, res.rows, now) IN
             /\ rowsLive' = res.rows
             /\ calls' = res.calls
             /\ scheduleRows' = [i \in 1..Len(scheduleRows) |->
                                    [scheduleRows[i] EXCEPT !.votes = res.rows[i].live]]
             /\ deskCalled' = Cardinality(DOMAIN res.calls)
             /\ pass' = [now |-> now, progress |-> progress, tick |-> TRUE, cancelled |-> stop]
             /\ clock' = now
             /\ pc' = IF stop THEN "stopped" ELSE "ticking"
    /\ UNCHANGED <<election, saved, rowsFinal, callRules, win, totalDistricts,
                   fnArgs, fnResult>>

\* the callback calling renderDesk before updateCalls: the desk shows the
\* registry as the tick found it
TickRenderFirst ==
    /\ pc = "ticking"
    /\ clock <= MaxNow
    /\ \E j \in Jitters, sk \in ClockSkews :
          LET now == clock + TICK_S + j
              progress == computeProgress(win.startMs, win.endMs, now + sk[1])
          IN \E res \in {PassRows(now, now + sk[2])} :
             LET stop == cancels(progress, res.rows, now) IN
             /\ rowsLive' = res.rows
             /\ calls' = res.calls
             /\ deskCalled' = Cardinality(DOMAIN calls)
             /\ pass' = [now |-> now, progress |-> progress, tick |-> TRUE, cancelled |-> stop]
             /\ clock' = now
             /\ pc' = IF stop THEN "stopped" ELSE "ticking"
    /\ UNCHANGED <<election, saved, rowsFinal, callRules, win, scheduleRows, totalDistricts,
                   fnArgs, fnResult>>

\* the setInterval callback: it fires TICK_S (or later) after the last one
Tick ==
    /\ pc = "ticking"
    /\ clock <= MaxNow
    /\ \E j \in Jitters, sk \in ClockSkews :
          LET now == clock + TICK_S + j
              progress == computeProgress(win.startMs, win.endMs, now + sk[1])
          IN \E res \in {PassRows(now, now + sk[2])} :
             LET stop == cancels(progress, res.rows, now) IN
             /\ rowsLive' = res.rows
             /\ calls' = res.calls
             /\ deskCalled' = Cardinality(DOMAIN res.calls)
             /\ pass' = [now |-> now, progress |-> progress, tick |-> TRUE, cancelled |-> stop]
             /\ clock' = now
             /\ pc' = IF stop THEN "stopped" ELSE "ticking"
    /\ UNCHANGED <<election, saved, rowsFinal, callRules, win, scheduleRows, totalDistricts,
                   fnArgs, fnResult>>

Next == Load \/ FirstPaint \/ Tick

Spec == Init /\ [][Next]_vars

(* ---- the session on other data: shared district ids, no district, ---- *)
(* ---- no usable dates                                                ---- *)
\* final rows in which rows share a district_id, and the empty district list
SharedIdRows ==
    { <<>>,
      << [district_id |-> "Seoul", votes |-> <<2, 1>>] >>,
      << [district_id |-> "Seoul", votes |-> <<2, 0>>],
         [district_id |-> "Seoul", votes |-> <<0, 2>>] >> }

\* election metadata with the two dates and without them
DataElections == { [count_start |-> 4, count_end |-> 16], [count_start |-> NaN, count_end |-> NaN] }

\* what localStorage holds at the load: nothing, or a window still open
DataSaved == { NoWindow, [startMs |-> 1, endMs |-> 30] }

InitData ==
    /\ clock \in {9}
    /\ pc = "load"
    /\ election \in DataElections
    /\ saved \in DataSaved
    /\ rowsFinal \in SharedIdRows
    /\ callRules = <<>>
    /\ win = NoWindow
    /\ scheduleRows = <<>>
    /\ totalDistricts = 0
    /\ calls = <<>>
    /\ rowsLive = <<>>
    /\ pass = NoPass
    /\ deskCalled = 0
    /\ fnArgs = <<>>
    /\ fnResult = <<>>

SpecData == InitData /\ [][Next]_vars

\* a pass is due: init() is about to paint, or the interval timer is set.
\* FirstPaint and Tick have no other guard, so this is ENABLED of their steps
PassDue == pc = "paint" \/ (pc = "ticking" /\ clock <= MaxNow)

\* the same session when init() runs to its end and the interval timer keeps
\* firing: weak fairness of Load and of the passes, the latter written out as
\* WF is defined, with PassDue for ENABLED <<FirstPaint \/ Tick>>_vars
FairSpecData ==
    /\ SpecData
    /\ WF_vars(Load)
    /\ ([]<>(~PassDue) \/ []<><<FirstPaint \/ Tick>>_vars)

(* ------------- the call engine on its own: arbitrary live rows --------- *)
\* rule lists an election may supply: none, one that any lead meets, one that
\* asks for a 90-point lead at half reporting
RuleLists ==
    { <<>>, << [phase |-> 0, lead |-> 0] >>, << [phase |-> 500, lead |-> 900] >> }

MaxInvocations == 3

\* live votes and phases a row may carry; <<101, 100>> is a lead under half a point
LiveVotes == VoteVectors \cup { <<101, 100>> }
PhaseSamples ==
    { [n |-> 1, d |-> 2], [n |-> 3, d |-> 4], [n |-> 999, d |-> 1000], [n |-> 1, d |-> 1] }

liveRow(id, live, ph) ==
    [district_id |-> id, votes |-> live, report_start |-> 0, report_end |-> 0,
     live |-> live, totalVotes |-> SumSeq(live), phase |-> ph, call |-> Null]

InitCalls ==
    /\ clock = 0
    /\ pc = "engine"
    /\ election = NoWindow
    /\ saved = NoWindow
    /\ rowsFinal = <<>>
    /\ callRules \in RuleLists
    /\ win = NoWindow
    /\ scheduleRows = <<>>
    /\ totalDistricts = 0
    /\ calls = <<>>
    /\ rowsLive = <<>>
    /\ pass = NoPass
    /\ deskCalled = 0
    /\ fnArgs = <<>>
    /\ fnResult = <<>>

\* updateCalls(rowsLive, parties) on one live row of any district
InvokeUpdateCalls ==
    /\ pc = "engine"
    /\ clock < MaxInvocations
    /\ \E i \in 1..Len(DistrictIds), live \in LiveVotes, ph \in PhaseSamples :
          \E res \in {updateCalls(<<liveRow(DistrictIds[i], live, ph)>>, Parties, calls,
                                  callRules, clock + 1)} :
             /\ rowsLive' = res.rows
             /\ calls' = res.calls
    /\ clock' = clock + 1
    /\ UNCHANGED <<pc, election, saved, rowsFinal, callRules, win, scheduleRows, totalDistricts,
                   pass, deskCalled, fnArgs, fnResult>>

\* the same invocation through the updateCalls of app.js
InvokeUpdateCallsApp ==
    /\ pc = "engine"
    /\ clock < MaxInvocations
    /\ \E i \in 1..Len(DistrictIds), live \in LiveVotes, ph \in PhaseSamples :
          \E res \in {updateCallsApp(<<liveRow(DistrictIds[i], live, ph)>>, Parties, calls,
                                     callRules, clock + 1)} :
             /\ rowsLive' = res.rows
             /\ calls' = res.calls
    /\ clock' = clock + 1
    /\ UNCHANGED <<pc, election, saved, rowsFinal, callRules, win, scheduleRows, totalDistricts,
                   pass, deskCalled, fnArgs, fnResult>>

NextCalls == InvokeUpdateCalls \/ InvokeUpdateCallsApp

SpecCalls == InitCalls /\ [][NextCalls]_vars

(* ----------------------- apportion on its own -------------------------- *)
MaxTotal == 4
MaxWeight == 4
MaxLen == 3

WeightArrays == UNION {[1..n -> 0..MaxWeight] : n \in 0..MaxLen}

InitApportion ==
    /\ clock = 0
    /\ pc = "apportion"
    /\ election = NoWindow
    /\ saved = NoWindow
    /\ rowsFinal = <<>>
    /\ callRules = <<>>
    /\ win = NoWindow
    /\ scheduleRows = <<>>
    /\ totalDistricts = 0
    /\ calls = <<>>
    /\ rowsLive = <<>>
    /\ pass = NoPass
    /\ deskCalled = 0
    /\ fnArgs \in {[total |-> t, weights |-> w] : t \in 0..MaxTotal, w \in WeightArrays}
    /\ fnResult = <<>>

CallApportion ==
    /\ pc = "apportion"
    /\ fnResult' = apportion(fnArgs.total, fnArgs.weights)
    /\ pc' = "returned"
    /\ UNCHANGED <<clock, election, saved, rowsFinal, callRules, win, scheduleRows,
                   totalDistricts, calls, rowsLive, pass, deskCalled, fnArgs>>

NextApportion == CallApportion

SpecApportion == InitApportion /\ [][NextApportion]_vars

(* ------------------ the count window across page loads ---------------- *)
MaxClock == 900

\* election metadata: valid dates, none, end before start, end equal to
\* start, one date missing
Metadatas ==
    { [count_start |-> 4, count_end |-> 16], [count_start |-> NaN, count_end |-> NaN],
      [count_start |-> 16, count_end |-> 4], [count_start |-> 5, count_end |-> 5],
      [count_start |-> 4, count_end |-> NaN] }

\* the time between two page loads
ElapseSteps == {100, 200, 300}

InitWindow ==
    /\ clock \in {0, 7}
    /\ pc = "window"
    /\ election \in Metadatas
    /\ saved = NoWindow
    /\ rowsFinal = <<>>
    /\ callRules = <<>>
    /\ win = NoWindow
    /\ scheduleRows = <<>>
    /\ totalDistricts = 0
    /\ calls = <<>>
    /\ rowsLive = <<>>
    /\ pass = NoPass
    /\ deskCalled = 0
    /\ fnArgs = <<>>
    /\ fnResult = <<>>

\* a page load: init() calls ensureCountWindow(election) at the clock
Reload ==
    /\ pc = "window"
    /\ fnArgs = <<>>
    /\ LET w == ensureCountWindow(election, saved, clock)
       IN /\ win' = w.win
          /\ saved' = w.saved
    /\ fnArgs' = <<clock>>
    /\ UNCHANGED <<clock, pc, election, rowsFinal, callRules, scheduleRows, totalDistricts,
                   calls, rowsLive, pass, deskCalled, fnResult>>

\* time passes until the page is loaded again
Elapse ==
    /\ pc = "window"
    /\ fnArgs # <<>>
    /\ \E dt \in ElapseSteps :
          /\ clock + dt <= MaxClock
          /\ clock' = clock + dt
    /\ fnArgs' = <<>>
    /\ UNCHANGED <<pc, election, saved, rowsFinal, callRules, win, scheduleRows,
                   totalDistricts, calls, rowsLive, pass, deskCalled, fnResult>>

NextWindow == Reload \/ Elapse

SpecWindow == InitWindow /\ [][NextWindow]_vars

(* ------------------ assignReportingSchedule on its own ---------------- *)
\* count windows: integer startMs < endMs, from one millisecond up
WindowStarts == {0, 3}
WindowSpans == {1, 2, 4, 9, 10, 20, 100}

ScheduleIds == {"Seoul", "Jeolla", "Hamgyeong", "Pyeongan", "Gangwon"}

\* the Math.random() draws, in hundredths
DrawSamples == {0, 50, 99}

InitSchedule ==
    /\ clock = 0
    /\ pc = "schedule"
    /\ election = NoWindow
    /\ saved = NoWindow
    /\ rowsFinal \in {<<[district_id |-> id, votes |-> <<1, 1>>]>> : id \in ScheduleIds}
    /\ callRules = <<>>
    /\ win \in {[startMs |-> a, endMs |-> a + d] : a \in WindowStarts, d \in WindowSpans}
    /\ scheduleRows = <<>>
    /\ totalDistricts = 0
    /\ calls = <<>>
    /\ rowsLive = <<>>
    /\ pass = NoPass
    /\ deskCalled = 0
    /\ fnArgs = <<>>
    /\ fnResult = <<>>

CallAssignReportingSchedule ==
    /\ pc = "schedule"
    /\ \E draws \in [1..Len(rowsFinal) -> DrawSamples \X DrawSamples] :
          scheduleRows' = assignReportingSchedule(rowsFinal, win.startMs, win.endMs, draws)
    /\ pc' = "scheduled"
    /\ UNCHANGED <<clock, election, saved, rowsFinal, callRules, win, totalDistricts, calls,
                   rowsLive, pass, deskCalled, fnArgs, fnResult>>

NextSchedule == CallAssignReportingSchedule

SpecSchedule == InitSchedule /\ [][NextSchedule]_vars

(* ----------------------- computeNational on its own -------------------- *)
\* live votes, phases and demographic columns a row may carry; NaN is a
\* column the CSV lacks
NationalVotes == { <<0, 0>>, <<1, 2>>, <<2, 2>>, <<600, 400>> }
NationalPhases == { NoPhase, [n |-> 0, d |-> 1], [n |-> 1, d |-> 2], [n |-> 1, d |-> 1] }
Demographics ==
    { [eligible_voters_est |-> NaN, turnout_est |-> NaN],
      [eligible_voters_est |-> 1000, turnout_est |-> 80],
      [eligible_voters_est |-> 500, turnout_est |-> 60],
      [eligible_voters_est |-> 1000, turnout_est |-> NaN] }

NationalRows ==
    { [live |-> v, phase |-> ph, eligible_voters_est |-> dm.eligible_voters_est,
       turnout_est |-> dm.turnout_est] :
         v \in NationalVotes, ph \in NationalPhases, dm \in Demographics }

PartyLists == { <<>>, Parties }

InitNational ==
    /\ clock = 0
    /\ pc = "national"
    /\ election = NoWindow
    /\ saved = NoWindow
    /\ rowsFinal = <<>>
    /\ callRules = <<>>
    /\ win = NoWindow
    /\ scheduleRows = <<>>
    /\ totalDistricts = 0
    /\ calls = <<>>
    /\ rowsLive = <<>>
    /\ pass = NoPass
    /\ deskCalled = 0
    /\ fnArgs \in {[rows |-> rs, parties |-> ps] :
                      rs \in {<<>>} \cup {<<r>> : r \in NationalRows}
                               \cup {<<r1, r2>> : r1 \in NationalRows, r2 \in NationalRows},
                      ps \in PartyLists}
    /\ fnResult = <<>>

CallComputeNational ==
    /\ pc = "national"
    /\ fnResult' = computeNational(fnArgs.rows, fnArgs.parties)
    /\ pc' = "aggregated"
    /\ UNCHANGED <<clock, election, saved, rowsFinal, callRules, win, scheduleRows,
                   totalDistricts, calls, rowsLive, pass, deskCalled, fnArgs>>

NextNational == CallComputeNational

SpecNational == InitNational /\ [][NextNational]_vars

(* ------------- one pass over a row of any CSV, any party list ---------- *)
\* a vote column as Number() reads it: not a number, negative, or a count
CsvVotes == {NaN, 0 - 2, 0, 1, 2}

\* when the pass runs, around the row's reporting window
PassStart == 4
PassEnd == 8
PassTimes == {3, 5, 6, 7, 8}

CsvRows ==
    { [district_id |-> "Seoul", votes |-> v, report_start |-> PassStart, report_end |-> PassEnd,
       eligible_voters_est |-> dm.eligible_voters_est, turnout_est |-> dm.turnout_est] :
         v \in [1..Len(Parties) -> CsvVotes], dm \in Demographics }

InitPass ==
    /\ clock \in PassTimes
    /\ pc = "scale"
    /\ election = NoWindow
    /\ saved = NoWindow
    /\ rowsFinal = <<>>
    /\ callRules \in RuleLists
    /\ win = NoWindow
    /\ scheduleRows \in {<<r>> : r \in CsvRows}
    /\ totalDistricts = 1
    /\ calls = <<>>
    /\ rowsLive = <<>>
    /\ pass = NoPass
    /\ deskCalled = 0
    /\ fnArgs \in {[parties |-> ps] : ps \in PartyLists}
    /\ fnResult = <<>>

PassScale ==
    /\ pc = "scale"
    /\ rowsLive' = scaleRowsBySchedule(scheduleRows, fnArgs.parties, clock)
    /\ pc' = "calls"
    /\ UNCHANGED <<clock, election, saved, rowsFinal, callRules, win, scheduleRows,
                   totalDistricts, calls, pass, deskCalled, fnArgs, fnResult>>

PassCalls ==
    /\ pc = "calls"
    /\ \E res \in {updateCalls(rowsLive, fnArgs.parties, calls, callRules, clock)} :
          /\ rowsLive' = res.rows
          /\ calls' = res.calls
    /\ pc' = "national"
    /\ UNCHANGED <<clock, election, saved, rowsFinal, callRules, win, scheduleRows,
                   totalDistricts, pass, deskCalled, fnArgs, fnResult>>

\* renderDesk: the national aggregate and the called count
PassNational ==
    /\ pc = "national"
    /\ fnResult' = computeNational(rowsLive, fnArgs.parties)
    /\ deskCalled' = Cardinality(DOMAIN calls)
    /\ pc' = "painted"
    /\ UNCHANGED <<clock, election, saved, rowsFinal, callRules, win, scheduleRows,
                   totalDistricts, calls, rowsLive, pass, fnArgs>>

NextPass == PassScale \/ PassCalls \/ PassNational

SpecPass == InitPass /\ [][NextPass]_vars


(* -------- one pass over a close district late in its reporting -------- *)
\* final votes of a district decided by a vote or two, or not at all
CloseVotes ==
    { <<20751, 20750>>, <<20750, 20751>>, <<20750, 20750>>, <<20752, 20750>>,
      <<20750, 20752>>, <<21000, 20000>> }

\* the district reports from 0 to CloseEnd; the pass runs at one of CloseTimes
CloseEnd == 1000
CloseTimes == {750, 920, 990, 999, 1000}

CloseRows ==
    { [district_id |-> id, votes |-> v, report_start |-> 0, report_end |-> CloseEnd,
       eligible_voters_est |-> NaN, turnout_est |-> NaN] :
         id \in {DistrictIds[i] : i \in 1..Len(DistrictIds)}, v \in CloseVotes }

InitClose ==
    /\ clock \in CloseTimes
    /\ pc = "scale"
    /\ election = NoWindow
    /\ saved = NoWindow
    /\ rowsFinal = <<>>
    /\ callRules = <<>>
    /\ win = NoWindow
    /\ scheduleRows \in {<<r>> : r \in CloseRows}
    /\ totalDistricts = 1
    /\ calls = <<>>
    /\ rowsLive = <<>>
    /\ pass = NoPass
    /\ deskCalled = 0
    /\ fnArgs = [parties |-> Parties]
    /\ fnResult = <<>>

SpecClose == InitClose /\ [][NextPass]_vars

(* ------------------------ earlyWeight on its own ----------------------- *)
\* biases bnum/(5*bden): the range biasVectorFor gives, [-0.2, 0.2], and
\* beyond it up to -10 and 10
BiasNums == {0 - 50, 0 - 2, 0 - 1, 0, 1, 2, 50}
BiasDens == {1, 2}

\* phases, also outside [0, 1]
WeightPhases ==
    { [n |-> 0 - 1, d |-> 2], [n |-> 0, d |-> 1], [n |-> 1, d |-> 2], [n |-> 3, d |-> 4],
      [n |-> 1, d |-> 1], [n |-> 3, d |-> 2] }

\* alpha in quarters: 0, 1 and 1.25
AlphaSamples == DOMAIN PowTable

InitWeight ==
    /\ clock = 0
    /\ pc = "weight"
    /\ election = NoWindow
    /\ saved = NoWindow
    /\ rowsFinal = <<>>
    /\ callRules = <<>>
    /\ win = NoWindow
    /\ scheduleRows = <<>>
    /\ totalDistricts = 0
    /\ calls = <<>>
    /\ rowsLive = <<>>
    /\ pass = NoPass
    /\ deskCalled = 0
    /\ fnArgs \in {[bnum |-> b, bden |-> bd, phase |-> ph, aq |-> a] :
                      b \in BiasNums, bd \in BiasDens, ph \in WeightPhases, a \in AlphaSamples}
    /\ fnResult = <<>>

CallEarlyWeight ==
    /\ pc = "weight"
    /\ fnResult' = earlyWeight(fnArgs.bnum, fnArgs.bden, fnArgs.phase, fnArgs.aq)
    /\ pc' = "weighed"
    /\ UNCHANGED <<clock, election, saved, rowsFinal, callRules, win, scheduleRows,
                   totalDistricts, calls, rowsLive, pass, deskCalled, fnArgs>>

NextWeight == CallEarlyWeight

SpecWeight == InitWeight /\ [][NextWeight]_vars

(* --------------------------- topTwo on its own ------------------------- *)
\* party lists in the order given, and a row's live votes per party; NaN is
\* a party whose share is null
RankedPartyLists == { <<"A", "B", "C">>, <<"C", "B", "A">>, <<"A", "B">>, <<"A">> }
RankedVotes == {NaN} \cup (0..MaxVotes)

InitTopTwo ==
    /\ clock = 0
    /\ pc = "rank"
    /\ election = NoWindow
    /\ saved = NoWindow
    /\ rowsFinal = <<>>
    /\ callRules = <<>>
    /\ win = NoWindow
    /\ scheduleRows = <<>>
    /\ totalDistricts = 0
    /\ calls = <<>>
    /\ rowsLive = <<>>
    /\ pass = NoPass
    /\ deskCalled = 0
    /\ fnArgs \in {[row |-> [live |-> v,
                             totalVotes |-> SumSeq([i \in 1..Len(ps) |-> NumberOr0(v[i])])],
                    parties |-> ps] :
                      ps \in RankedPartyLists, v \in [1..3 -> RankedVotes]}
    /\ fnResult = <<>>

CallTopTwo ==
    /\ pc = "rank"
    /\ fnResult' = topTwo(fnArgs.row, fnArgs.parties)
    /\ pc' = "ranked"
    /\ UNCHANGED <<clock, election, saved, rowsFinal, callRules, win, scheduleRows,
                   totalDistricts, calls, rowsLive, pass, deskCalled, fnArgs>>

NextTopTwo == CallTopTwo

SpecTopTwo == InitTopTwo /\ [][NextTopTwo]_vars

(* ------------------------------ properties ----------------------------- *)
\* the party strictly ahead of every other in a live row, or "null"
StrictLeader(live) ==
    IF \E k \in 1..Len(Parties) : \A j \in 1..Len(Parties) : j # k => live[k] > live[j]
    THEN Parties[CHOOSE k \in 1..Len(Parties) :
                    \A j \in 1..Len(Parties) : j # k => live[k] > live[j]]
    ELSE "null"

FullyReported(ph) == ph.n * 1000 >= 999 * ph.d

\* C1 (registry monotonicity): once a district has an entry in STATE.calls,
\* no pass removes the entry or changes its winner or its time
C1_RegistryMonotone ==
    [][\A id \in DOMAIN calls : id \in DOMAIN calls' /\ calls'[id] = calls[id]]_vars

\* a timer tick runs after a district was called in an earlier pass
C1_Witness ==
    /\ pass.tick
    /\ \E id \in DOMAIN calls : pass.now > calls[id].at

\* C2 (call idempotence): a row of a district that already has an entry gets
\* exactly the stored entry as its _call, whatever votes and phase it carries
C2_CallIdempotent ==
    [][\A i \in 1..Len(rowsLive') :
          rowsLive'[i].district_id \in DOMAIN calls
             => rowsLive'[i].call = calls[rowsLive'[i].district_id]]_vars

\* a row carries an entry stored by an earlier invocation for the party that
\* now trails in it
C2_Witness ==
    \E i \in 1..Len(rowsLive) :
        /\ rowsLive[i].call # Null
        /\ rowsLive[i].call.at < clock
        /\ StrictLeader(rowsLive[i].live) # "null"
        /\ StrictLeader(rowsLive[i].live) # rowsLive[i].call.winner

\* C3 (full-reporting resolution): a row of an uncalled district with
\* phase >= 0.999 and one party strictly ahead is called for that party in
\* that invocation, under any rule list
C3_FullReportingCalls ==
    [][\A i \in 1..Len(rowsLive') :
          LET r == rowsLive'[i]
              id == r.district_id
          IN (id \notin DOMAIN calls /\ FullyReported(r.phase) /\ StrictLeader(r.live) # "null")
                => /\ id \in DOMAIN calls'
                   /\ calls'[id].winner = StrictLeader(r.live)
                   /\ r.call = calls'[id]]_vars

\* a fully reported row is called on a lead that meets no rule of the list
C3_Witness ==
    /\ callRules = << [phase |-> 500, lead |-> 900] >>
    /\ \E i \in 1..Len(rowsLive) :
          /\ rowsLive[i].phase = [n |-> 1, d |-> 1]
          /\ rowsLive[i].live = <<1, 2>>
          /\ rowsLive[i].call = [winner |-> "B", at |-> clock]

\* C4 as stated: a two-party district whose final votes are tied never gets
\* an entry in STATE.calls under the default rules
C4_TiedNeverCalled ==
    \A i \in 1..Len(scheduleRows) :
        scheduleRows[i].votes[1] = scheduleRows[i].votes[2]
           => scheduleRows[i].district_id \notin DOMAIN calls

\* C4 (amended): under the default rules a pass that sees a tied two-party
\* district below phase 0.75 or at phase 1 gives it no entry, and at phase 1
\* its live votes are level and its label is 'tossup'
C4_TiedUncalledOutsideRuleWindow ==
    [][\A i \in 1..Len(rowsLive') :
          LET r == rowsLive'[i]
              id == r.district_id
          IN r.votes[1] = r.votes[2]
                => /\ (r.phase.n * 4 < 3 * r.phase.d \/ r.phase.n = r.phase.d)
                        => (id \notin DOMAIN calls => id \notin DOMAIN calls')
                   /\ r.phase.n = r.phase.d
                        => /\ r.live[1] = r.live[2]
                           /\ raceCallStatus(r, Parties, callRules).label = "tossup"]_vars

\* a tick sees a tied district with votes at phase 1 and leaves it uncalled
C4_Witness ==
    /\ pass.tick
    /\ \E i \in 1..Len(rowsLive) :
          /\ rowsLive[i].votes[1] = rowsLive[i].votes[2]
          /\ rowsLive[i].votes[1] > 0
          /\ rowsLive[i].phase = [n |-> 1, d |-> 1]
          /\ rowsLive[i].district_id \notin DOMAIN calls

\* C5 (timer cancellation): a tick clears the interval exactly when its
\* progress is at least 100 and every district's report_end is at or before
\* its now; no tick runs after that
C5_TimerCancellation ==
    [][/\ pc # "stopped"
       /\ pc = "ticking"
            => ((pc' = "stopped") <=>
                  /\ pass'.progress.n >= 100 * pass'.progress.d
                  /\ \A i \in 1..Len(scheduleRows) : scheduleRows[i].report_end <= pass'.now)]_vars

\* the timer was cancelled by a tick, after ticks that did not cancel it
C5_Witness ==
    /\ pc = "stopped"
    /\ pass.tick
    /\ pass.cancelled
    /\ pass.now >= win.endMs + TICK_S

\* C6 (reported total): in every live row the party votes are non-negative
\* integers whose sum is round(totalFinal * phase), which is _totalVotes
C6_LiveVotesSumToReported ==
    \A i \in 1..Len(rowsLive) :
        LET r == rowsLive[i]
            totalFinal == SumSeq([k \in 1..Len(Parties) |-> Max(0, r.votes[k])])
        IN /\ \A k \in 1..Len(Parties) : r.live[k] \in Nat
           /\ SumSeq(r.live) = RoundDiv(totalFinal * r.phase.n, r.phase.d)
           /\ r.totalVotes = SumSeq(r.live)

\* a district is part reported: some but not all of its votes are live
C6_Witness ==
    \E i \in 1..Len(rowsLive) :
        /\ rowsLive[i].phase.n > 0
        /\ rowsLive[i].phase.n < rowsLive[i].phase.d
        /\ rowsLive[i].totalVotes > 0
        /\ rowsLive[i].totalVotes < rowsLive[i].votes[1] + rowsLive[i].votes[2]

\* C7 (full reporting is exact): a row scaled at or after its report_end has
\* phase 1 and live votes equal to the final votes; if one party is strictly
\* ahead the row's status is 'called' with that party leading and the
\* district has an entry, for that party when the entry is made at full
\* reporting
C7_FullReportingExact ==
    \A i \in 1..Len(rowsLive) :
        LET r == rowsLive[i]
            id == r.district_id
        IN pass.now >= r.report_end
              => /\ r.phase = [n |-> 1, d |-> 1]
                 /\ \A k \in 1..Len(Parties) : r.live[k] = r.votes[k]
                 /\ StrictLeader(r.votes) # "null"
                       => /\ raceCallStatus(r, Parties, callRules).called
                          /\ topTwo(r, Parties).leader.key = StrictLeader(r.votes)
                          /\ id \in DOMAIN calls
                          /\ r.call = calls[id]
                          /\ calls[id].at >= pass.now => calls[id].winner = StrictLeader(r.votes)

\* a district whose final votes favour A is fully reported and called for A
\* in that pass
C7_Witness ==
    \E i \in 1..Len(rowsLive) :
        /\ pass.now >= rowsLive[i].report_end
        /\ rowsLive[i].votes = <<2, 1>>
        /\ rowsLive[i].live = <<2, 1>>
        /\ rowsLive[i].call.winner = "A"
        /\ rowsLive[i].call.at >= pass.now

\* C8 (phase): a district's phase is within [0, 1], is 0 at or before
\* report_start and 1 at or after report_end, and never decreases from one
\* pass to the next
C8_PhaseMonotone ==
    /\ [](\A i \in 1..Len(rowsLive) :
            LET r == rowsLive[i]
            IN /\ r.phase.d > 0
               /\ 0 <= r.phase.n /\ r.phase.n <= r.phase.d
               /\ pass.now <= r.report_start => r.phase.n = 0
               /\ pass.now >= r.report_end => r.phase.n = r.phase.d)
    /\ [][\A i \in 1..Len(rowsLive) :
            i <= Len(rowsLive')
               => rowsLive[i].phase.n * rowsLive'[i].phase.d
                     <= rowsLive'[i].phase.n * rowsLive[i].phase.d]_vars

\* a tick sees a district strictly inside its reporting window
C8_Witness ==
    /\ pass.tick
    /\ \E i \in 1..Len(rowsLive) :
          /\ rowsLive[i].phase.n > 0
          /\ rowsLive[i].phase.n < rowsLive[i].phase.d
          /\ pass.now > rowsLive[i].report_start
          /\ pass.now < rowsLive[i].report_end

\* C9 as stated: for every total and every array of non-negative weights
\* the values apportion returns sum to total
C9_SumAlwaysTotal ==
    pc = "returned" => SumSeq(fnResult) = fnArgs.total

\* C9 (amended): for every non-negative total and every array of
\* non-negative weights of which one at least is positive, the values
\* apportion returns sum to total
C9_SumIsTotalWhenWeighted ==
    (pc = "returned" /\ SumSeq(fnArgs.weights) > 0)
       => SumSeq(fnResult) = fnArgs.total

\* apportion handed out a remainder: 4 over three equal weights
C9_Witness ==
    /\ pc = "returned"
    /\ fnArgs = [total |-> 4, weights |-> <<1, 1, 1>>]
    /\ fnResult = <<2, 1, 1>>

\* C10 (degenerate apportion): with total 0 or all weights zero apportion
\* returns zeros, as many as there are weights
C10_DegenerateZeros ==
    (pc = "returned"
        /\ (fnArgs.total = 0 \/ \A i \in 1..Len(fnArgs.weights) : fnArgs.weights[i] = 0))
       => fnResult = [i \in 1..Len(fnArgs.weights) |-> 0]

\* apportion returned zeros for a positive total over all-zero weights
C10_Witness ==
    /\ pc = "returned"
    /\ fnArgs.total > 0
    /\ Len(fnArgs.weights) >= 2
    /\ \A i \in 1..Len(fnArgs.weights) : fnArgs.weights[i] = 0
    /\ fnResult = [i \in 1..Len(fnArgs.weights) |-> 0]

ValidDates(e) == IsFinite(e.count_start) /\ IsFinite(e.count_end) /\ e.count_end > e.count_start

\* C11 (count window validity): whatever the election metadata and whatever
\* ensureCountWindow persisted before, the window it returns has finite
\* startMs and endMs with endMs > startMs
C11_WindowValid ==
    (pc = "window" /\ fnArgs # <<>>)
       => /\ IsFinite(win.startMs) /\ IsFinite(win.endMs)
          /\ win.startMs >= 0
          /\ win.endMs > win.startMs

\* a load with end-before-start metadata got a window from the fallback
C11_Witness ==
    /\ pc = "window" /\ fnArgs # <<>>
    /\ election = [count_start |-> 16, count_end |-> 4]
    /\ win.endMs = win.startMs + FallbackWindowS

\* C12 (fallback stability): with absent or invalid metadata and a persisted
\* fallback window, a load before the window's endMs returns that window
\* and leaves it persisted; a load at or after endMs returns and persists
\* the fresh window [now, now + 5 minutes]
C12_FallbackStable ==
    [][(pc = "window" /\ fnArgs = <<>> /\ fnArgs' # <<>> /\ ~ValidDates(election)
          /\ saved # NoWindow)
         => IF clock < saved.endMs
            THEN win' = saved /\ saved' = saved
            ELSE /\ win' = [startMs |-> clock, endMs |-> clock + FallbackWindowS]
                 /\ saved' = win']_vars

\* a reload inside the persisted window got the window of an earlier load
C12_Witness ==
    /\ pc = "window" /\ fnArgs # <<>>
    /\ ~ValidDates(election)
    /\ win = saved
    /\ win.startMs < clock
    /\ clock < win.endMs

\* C13 (schedule invariant): for every count window with integer
\* startMs < endMs and every draw, each schedule entry has
\* startMs <= report_start < report_end <= endMs and
\* report_end >= report_start + 5% of the window
C13_ScheduleInvariant ==
    pc = "scheduled"
       => \A i \in 1..Len(scheduleRows) :
             LET r == scheduleRows[i]
             IN /\ win.startMs <= r.report_start
                /\ r.report_start < r.report_end
                /\ r.report_end <= win.endMs
                /\ 20 * (r.report_end - r.report_start) >= win.endMs - win.startMs

\* the weight of a row in the national turnout, eligible voters times phase,
\* over the denominator of its phase; a row without _phase counts as fully
\* reported when the parties have live votes in it
TurnoutWeight(r, parties) ==
    LET tot == SumSeq([i \in 1..Len(parties) |-> r.live[i]])
        ph == IF r.phase # NoPhase THEN r.phase
              ELSE [n |-> IF tot > 0 THEN 1 ELSE 0, d |-> 1]
    IN [n |-> (IF r.eligible_voters_est = NaN THEN 0 ELSE r.eligible_voters_est) * ph.n,
        d |-> ph.d]

ScenarioC ==
    << [live |-> <<600, 400>>, phase |-> [n |-> 1, d |-> 1],
        eligible_voters_est |-> 1000, turnout_est |-> 80],
       [live |-> <<0, 0>>, phase |-> [n |-> 0, d |-> 1],
        eligible_voters_est |-> 500, turnout_est |-> 60] >>

\* C14 (national turnout): natTurnout is the mean of the districts' turnout
\* weighted by eligible_voters_est * phase, 0 when no weight is accumulated;
\* a district at phase 0 adds nothing, so scenario C gives exactly 80
C14_NationalTurnout ==
    pc = "aggregated"
       => LET rows == fnArgs.rows
              w == [k \in 1..Len(rows) |-> TurnoutWeight(rows[k], fnArgs.parties)]
              \* the weights are over 1 or 2: twice each is an integer
              w2 == [k \in 1..Len(rows) |-> (2 * w[k].n) \div w[k].d]
              W == SumSeq(w2)
              T == SumSeq([k \in 1..Len(rows) |->
                             (IF rows[k].turnout_est = NaN THEN 0 ELSE rows[k].turnout_est)
                                * w2[k]])
          IN /\ W = 0 => fnResult.natTurnout = [n |-> 0, d |-> 1]
             /\ W > 0 => /\ fnResult.natTurnout.d > 0
                         /\ fnResult.natTurnout.n * W = T * fnResult.natTurnout.d
             /\ rows = ScenarioC => fnResult.natTurnout.n = 80 * fnResult.natTurnout.d

\* scenario C was aggregated and gave 80
C14_Witness ==
    /\ pc = "aggregated"
    /\ fnArgs.rows = ScenarioC
    /\ fnResult.natTurnout.d > 0
    /\ fnResult.natTurnout.n = 80 * fnResult.natTurnout.d

\* C15 (national aggregation): totals[P] is the sum of P_votes_live over the
\* districts, ballots the sum of the totals and of the districts'
\* _totalVotes, natPct[P] is totals[P]/ballots*100 when ballots > 0 and 0
\* when ballots is 0
C15_NationalTotals ==
    (pc = "aggregated" /\ fnArgs.parties = Parties)
       => LET rows == fnArgs.rows
              res == fnResult
          IN /\ \A i \in 1..Len(Parties) :
                   res.totals[i] = SumSeq([k \in 1..Len(rows) |-> rows[k].live[i]])
             /\ res.ballots = SumSeq(res.totals)
             /\ res.ballots = SumSeq([k \in 1..Len(rows) |-> SumSeq(rows[k].live)])
             /\ \A i \in 1..Len(Parties) :
                   IF res.ballots > 0
                   THEN /\ res.natPct[i].d > 0
                        /\ res.natPct[i].n * res.ballots = res.totals[i] * 100 * res.natPct[i].d
                   ELSE res.natPct[i] = [n |-> 0, d |-> 1]

\* two districts with votes were aggregated
C15_Witness ==
    /\ pc = "aggregated"
    /\ fnArgs.parties = Parties
    /\ Len(fnArgs.rows) = 2
    /\ fnResult.totals = <<601, 402>>
    /\ fnResult.ballots = 1003

\* the lead of a two-party live row in points, as the fraction n/d
TwoPartyLead(live) ==
    IF live[1] + live[2] > 0
    THEN [n |-> 100 * (IF live[1] >= live[2] THEN live[1] - live[2] ELSE live[2] - live[1]),
          d |-> live[1] + live[2]]
    ELSE [n |-> 0, d |-> 1]

\* C16 (rule disjunction): an invocation on a row of an uncalled district
\* with phase < 0.999 records a call exactly when some rule of the active
\* list has phase >= rule.phase and lead >= rule.lead; the active list is
\* STATE.callRules when it is a non-empty list, the defaults otherwise
C16_RuleDisjunction ==
    [][\A i \in 1..Len(rowsLive') :
          LET r == rowsLive'[i]
              id == r.district_id
              lead == TwoPartyLead(r.live)
              active == IF callRules # <<>> THEN callRules ELSE DEFAULT_CALL_RULES
          IN (id \notin DOMAIN calls /\ ~FullyReported(r.phase))
                => (id \in DOMAIN calls'
                      <=> \E k \in 1..Len(active) :
                             /\ r.phase.n * 1000 >= active[k].phase * r.phase.d
                             /\ lead.n * 10 >= active[k].lead * lead.d)]_vars

\* a CSV row with every vote column that is missing, not a number or
\* negative replaced by 0
ZeroedVotes(row) ==
    [row EXCEPT !.votes = [i \in 1..Len(row.votes) |->
                              IF row.votes[i] = NaN \/ row.votes[i] < 0 THEN 0
                              ELSE row.votes[i]]]

\* C17 (malformed numbers): a vote column that is missing, not a number or
\* negative counts as 0 in scaleRowsBySchedule; every share of a live row is
\* null exactly when _totalVotes is 0 and otherwise a percent in [0, 100];
\* computeNational counts a missing eligible_voters_est or turnout as 0
C17_MalformedFieldsCountZero ==
    (pc \in {"calls", "national", "painted"} /\ fnArgs.parties = Parties)
       => \A k \in 1..Len(rowsLive) :
             LET r == rowsLive[k]
             IN /\ r.live = scaleRow(ZeroedVotes(scheduleRows[k]), Parties, clock).live
                /\ \A i \in 1..Len(Parties) :
                      /\ r.live[i] \in Nat
                      /\ (shareOf(r, i) = NoShare) <=> (r.totalVotes = 0)
                      /\ shareOf(r, i) # NoShare
                            => /\ shareOf(r, i).d > 0
                               /\ shareOf(r, i).n >= 0
                               /\ shareOf(r, i).n <= 100 * shareOf(r, i).d
                /\ pc = "painted"
                      => /\ fnResult.natTurnout.d > 0
                         /\ fnResult.natTurnout.n >= 0
                         /\ fnResult.eligible.n >= 0
                         /\ (r.eligible_voters_est = NaN \/ r.turnout_est = NaN)
                               => fnResult.natTurnout.n = 0
                         /\ r.eligible_voters_est = NaN => fnResult.eligible.n = 0

\* a row with one vote column missing and the other negative, and no
\* demographic columns, went through the pass with no live votes
C17_Witness ==
    /\ pc = "painted"
    /\ fnArgs.parties = Parties
    /\ scheduleRows[1].votes = <<NaN, 0 - 2>>
    /\ scheduleRows[1].eligible_voters_est = NaN
    /\ rowsLive[1].totalVotes = 0
    /\ shareOf(rowsLive[1], 1) = NoShare

\* C18 (empty party list): with parties = [] every live row has
\* _totalVotes 0 and no party entry, no district is called and the registry
\* stays empty, and the national aggregate has empty totals, natPct and
\* ordered and ballots 0
C18_EmptyParties ==
    fnArgs.parties = <<>>
       => /\ pc \in {"calls", "national", "painted"}
               => \A k \in 1..Len(rowsLive) :
                     /\ rowsLive[k].live = <<>>
                     /\ rowsLive[k].totalVotes = 0
                     /\ rowsLive[k].call = Null
          /\ pc \in {"scale", "calls", "national", "painted"} => DOMAIN calls = {}
          /\ pc = "painted"
               => /\ fnResult.totals = <<>>
                  /\ fnResult.natPct = <<>>
                  /\ fnResult.ordered = <<>>
                  /\ fnResult.ballots = 0
                  /\ deskCalled = 0

\* a pass with no parties ran to the end under a rule any lead meets
C18_Witness ==
    /\ pc = "painted"
    /\ fnArgs.parties = <<>>
    /\ callRules = << [phase |-> 0, lead |-> 0] >>
    /\ Len(rowsLive) = 1
    /\ fnResult.ballots = 0

C20_TopTwoTieBreak ==
    pc = "ranked"
       => LET ps == fnArgs.parties
              row == fnArgs.row
              F == {i \in 1..Len(ps) : row.totalVotes > 0 /\ row.live[i] # NaN}
              Best(S) == CHOOSE i \in S :
                            \A j \in S : row.live[j] < row.live[i]
                                           \/ (row.live[j] = row.live[i] /\ i <= j)
          IN /\ F = {} => fnResult = [leader |-> NoParty, runnerUp |-> NoParty]
             /\ F # {}
                  => /\ fnResult.leader = [key |-> ps[Best(F)], votes |-> row.live[Best(F)]]
                     /\ F \ {Best(F)} = {} => fnResult.runnerUp = NoParty
                     /\ F \ {Best(F)} # {}
                          => LET second == Best(F \ {Best(F)})
                             IN /\ fnResult.runnerUp
                                      = [key |-> ps[second], votes |-> row.live[second]]
                                /\ second > Best(F) \/ row.live[second] < row.live[Best(F)]
                                /\ row.live[second] = row.live[Best(F)]
                                      => leadOf(row, fnResult).n = 0

\* three parties level at the top: the first in the order leads, the second
\* is runner-up
C20_Witness ==
    /\ pc = "ranked"
    /\ fnArgs.parties = <<"C", "B", "A">>
    /\ fnArgs.row.live = <<2, 2, 2>>
    /\ fnResult.leader.key = "C"
    /\ fnResult.runnerUp.key = "B"

\* C21: largest-remainder allocation.  For total > 0 and sum(weights) > 0
\* every entry apportion returns is floor(q_i) or floor(q_i) + 1, with
\* q_i = total * w_i / sum; exactly total - sum(floors) entries get the + 1,
\* and they are the entries with the largest fractional remainders, an
\* earlier entry of the array going before a later one with the same remainder.
C21_LargestRemainder ==
    (pc = "returned" /\ fnArgs.total > 0 /\ SumSeq(fnArgs.weights) > 0) =>
        LET w == fnArgs.weights
            n == Len(w)
            sum == SumSeq(w)
            fl == [i \in 1..n |-> (fnArgs.total * w[i]) \div sum]
            rem == [i \in 1..n |-> fnArgs.total * w[i] - fl[i] * sum]
            up == {i \in 1..n : fnResult[i] = fl[i] + 1}
        IN /\ \A i \in 1..n : fnResult[i] \in {fl[i], fl[i] + 1}
           /\ Cardinality(up) = fnArgs.total - SumSeq(fl)
           /\ \A i \in up, j \in (1..n) \ up :
                 rem[i] > rem[j] \/ (rem[i] = rem[j] /\ i < j)

C23_TickOrdering ==
    /\ [][pass'.tick =>
             /\ pc = "ticking"
             /\ pass.now # NaN
             /\ win # NoWindow
             /\ Len(scheduleRows) = Len(rowsFinal)
             /\ scheduleRows' = scheduleRows]_vars
    /\ [](pass.now # NaN =>
             /\ deskCalled = Cardinality(DOMAIN calls)
             /\ \A i \in 1..Len(rowsLive) :
                   rowsLive[i].call = IF rowsLive[i].district_id \in DOMAIN calls
                                      THEN calls[rowsLive[i].district_id] ELSE Null)

\* a tick that called a district itself and rendered the count with it
C23_Witness ==
    /\ pass.tick
    /\ deskCalled = 2
    /\ \E i \in 1..Len(rowsLive) :
          /\ rowsLive[i].call # Null
          /\ rowsLive[i].call.at = pass.now
    /\ \E i \in 1..Len(rowsLive) :
          /\ rowsLive[i].call # Null
          /\ rowsLive[i].call.at < pass.now

\* the live rows of the session as computeNational reads them: the CSV of the
\* session has no eligible_voters_est and no turnout column
NationalOf(rows) ==
    computeNational([i \in 1..Len(rows) |->
                        [eligible_voters_est |-> NaN, turnout_est |-> NaN] @@ rows[i]],
                    Parties)

\* C24: reported totals never go down.  From each pass to the next every
\* district's _totalVotes stays or grows, it never exceeds the district's
\* total final votes, and the national ballots count stays or grows.
C24_TotalsMonotone ==
    /\ [][pass.now # NaN =>
             /\ \A i \in 1..Len(rowsLive) : rowsLive'[i].totalVotes >= rowsLive[i].totalVotes
             /\ NationalOf(rowsLive').ballots >= NationalOf(rowsLive).ballots]_vars
    /\ [](\A i \in 1..Len(rowsLive) :
             /\ rowsLive[i].totalVotes >= 0
             /\ rowsLive[i].totalVotes <= SumSeq(rowsFinal[i].votes))

\* a tick in the middle of a district's reporting: part of its votes are in,
\* and the national count is short of the final one
C24_Witness ==
    /\ pass.tick
    /\ \E i \in 1..Len(rowsLive) :
          /\ rowsLive[i].totalVotes > 0
          /\ rowsLive[i].totalVotes < SumSeq(rowsFinal[i].votes)
    /\ NationalOf(rowsLive).ballots > 0
    /\ NationalOf(rowsLive).ballots
          < SumSeq([i \in 1..Len(rowsFinal) |-> SumSeq(rowsFinal[i].votes)])

\* C25: under the default call rules a race is never called for a party
\* that loses the final count: the winner stored for a district is a party
\* whose final votes are the maximum among the district's parties.
C25_NeverCallsFinalLoser ==
    \A i \in 1..Len(rowsLive) :
        rowsLive[i].call # Null =>
            \E k \in 1..Len(Parties) :
                /\ Parties[k] = rowsLive[i].call.winner
                /\ \A p \in 1..Len(Parties) :
                      Max(0, NumberOr0(rowsLive[i].votes[k]))
                         >= Max(0, NumberOr0(rowsLive[i].votes[p]))


\* C26 (every resolvable district is called by the end): once the timer is
\* cancelled, every district whose final votes have one strictly highest
\* party has an entry in STATE.calls
C26_ResolvableCalled ==
    pc = "stopped"
       => \A i \in 1..Len(rowsFinal) :
             StrictLeader(rowsFinal[i].votes) # "null"
                => rowsFinal[i].district_id \in DOMAIN calls

\* the cancelling tick is the one that calls a district for its final leader
C26_Witness ==
    /\ pc = "stopped"
    /\ pass.cancelled
    /\ \E i \in 1..Len(rowsFinal) :
          LET id == rowsFinal[i].district_id IN
          /\ StrictLeader(rowsFinal[i].votes) = "B"
          /\ id \in DOMAIN calls
          /\ calls[id] = [winner |-> "B", at |-> pass.now]


\* C27 (registry entries are well formed): for any rule list, also one whose
\* rule asks for phase 0 and lead 0, an entry made by an invocation names a
\* party of the party list that has a finite share and the highest live votes
\* of its row (the first such party), the row has _totalVotes > 0 and carries
\* the entry as its _call; so a district without reported votes gets no entry
C27_EntriesWellFormed ==
    /\ [](\A id \in DOMAIN calls : \E k \in 1..Len(Parties) : calls[id].winner = Parties[k])
    /\ [][\A id \in DOMAIN calls' \ DOMAIN calls :
            \E i \in 1..Len(rowsLive') :
               LET r == rowsLive'[i] IN
               /\ r.district_id = id
               /\ r.totalVotes > 0
               /\ r.call = calls'[id]
               /\ \E k \in 1..Len(Parties) :
                     /\ calls'[id].winner = Parties[k]
                     /\ shareOf(r, k) # NoShare
                     /\ \A j \in 1..Len(Parties) : r.live[j] <= r.live[k]
                     /\ \A j \in 1..(k - 1) : r.live[j] < r.live[k]]_vars

\* under a rule of phase 0 and lead 0 a tied district was called for the
\* first party, and a later invocation leaves a district without votes
\* uncalled
C27_Witness ==
    /\ callRules = << [phase |-> 0, lead |-> 0] >>
    /\ Len(rowsLive) = 1
    /\ rowsLive[1].live = <<0, 0>>
    /\ rowsLive[1].call = Null
    /\ rowsLive[1].district_id \notin DOMAIN calls
    /\ \E id \in DOMAIN calls : calls[id].winner = "A" /\ calls[id].at < clock


\* C28 (no call below phase 0.75): under the default rules a tick that sees
\* an uncalled district at a phase below 0.75 stores no entry for it,
\* whatever its lead, a lead of 100 points included
C28_NoCallBeforeThreeQuarters ==
    [][\A i \in 1..Len(rowsLive') :
          LET r == rowsLive'[i] IN
          (r.district_id \notin DOMAIN calls /\ r.phase.n * 4 < 3 * r.phase.d)
             => r.district_id \notin DOMAIN calls']_vars

\* a tick leaves uncalled a district below phase 0.75 in which one party has
\* every reported vote
C28_Witness ==
    /\ pass.tick
    /\ \E i \in 1..Len(rowsLive) :
          LET r == rowsLive[i] IN
          /\ r.phase.n * 4 < 3 * r.phase.d
          /\ r.live[1] > 0
          /\ r.live[2] = 0
          /\ r.call = Null
          /\ r.district_id \notin DOMAIN calls


\* C29 (called count): STATE.calls never holds more entries than
\* STATE.totalDistricts, the number of distinct district ids, also when rows
\* share an id; neither does the count the desk shows; and the number of
\* entries never decreases
C29_CalledCountBound ==
    /\ [](Cardinality(DOMAIN calls) <= totalDistricts /\ deskCalled <= totalDistricts)
    /\ [][Cardinality(DOMAIN calls') >= Cardinality(DOMAIN calls)]_vars

\* two rows share the one district id and a tick has given both the entry
C29_Witness ==
    /\ pass.tick
    /\ totalDistricts = 1
    /\ Len(rowsLive) = 2
    /\ Cardinality(DOMAIN calls) = 1
    /\ rowsLive[1].call # Null
    /\ rowsLive[2].call = rowsLive[1].call

\* C30 (ticking terminates): when init() runs to its end and the timer keeps
\* firing, the timer is eventually cancelled, for the window of the election
\* dates, a persisted window and the five-minute fallback window, and also
\* without any district
C30_TickingTerminates == <>(pc = "stopped")

\* the timer was cancelled in a session with the fallback window and no
\* district
C30_Witness ==
    /\ pc = "stopped"
    /\ pass.cancelled
    /\ rowsFinal = <<>>
    /\ win.endMs = win.startMs + FallbackWindowS

====
